---- MODULE Spec2Model ----
(***************************************************************************)
(* Model of Spindle's command-line resolver, src/fe/launchmon/parseargs.cc *)
(*                                                                         *)
(* parseArgs() hands the command line to argp_parse(), which calls the     *)
(* static callback parse() once per event: ARGP_KEY_INIT, one call per     *)
(* option, ARGP_KEY_ARG / ARGP_KEY_ARGS at the first non-option token,     *)
(* ARGP_KEY_NO_ARGS when there was none, ARGP_KEY_END, ARGP_KEY_SUCCESS    *)
(* and ARGP_KEY_FINI.  parse() is modelled as the function parse(key, arg, *)
(* state, G) over the record G of the file's static variables; every       *)
(* action delivers one event and stores the record back.                   *)
(*                                                                         *)
(* C strings are sequences of one-character strings, the null pointer is   *)
(* NULL, and an option mask (unsigned long) is the set of the names of the *)
(* bits that are set in it.                                                *)
(***************************************************************************)
EXTENDS Integers, Sequences, FiniteSets, TLC

(***************************************************************************)
(* Bounds of the model.                                                    *)
(***************************************************************************)
\* most option tokens on a command line
MaxOpts == 3
\* most tokens of the job command (the command word and its arguments)
MaxCmd == 2

(***************************************************************************)
(* C strings                                                               *)
(***************************************************************************)
NULL == <<"<null>">>

Digits == {"0", "1", "2", "3", "4", "5", "6", "7", "8", "9"}

DigitVal(c) ==
  CASE c = "0" -> 0 [] c = "1" -> 1 [] c = "2" -> 2 [] c = "3" -> 3
    [] c = "4" -> 4 [] c = "5" -> 5 [] c = "6" -> 6 [] c = "7" -> 7
    [] c = "8" -> 8 [] c = "9" -> 9

\* the value of the longest run of digits at the front of s, after acc
RECURSIVE atoi_digits(_, _)
atoi_digits(s, acc) ==
  IF s = <<>> \/ Head(s) \notin Digits THEN acc
  ELSE atoi_digits(Tail(s), 10 * acc + DigitVal(Head(s)))

RECURSIVE atoi_skip_space(_)
atoi_skip_space(s) ==
  IF s # <<>> /\ Head(s) = " " THEN atoi_skip_space(Tail(s)) ELSE s

\* atoi(3): leading blanks, an optional sign, then decimal digits up to the
\* first character that is not one; 0 when there is no digit.
atoi(s) ==
  LET t == atoi_skip_space(s)
  IN  IF t # <<>> /\ Head(t) = "-" THEN 0 - atoi_digits(Tail(t), 0)
      ELSE IF t # <<>> /\ Head(t) = "+" THEN atoi_digits(Tail(t), 0)
      ELSE atoi_digits(t, 0)

\* spindle_port = atoi(arg) converts the int to unsigned int.  The unsigned
\* value is held as the int with the same 32 bits (-1 stands for 4294967295):
\* the code only tests it against zero and hands it out.
ToUnsigned(i) == i

(***************************************************************************)
(* Option keys (the #defines at the top of the file) and argp's event keys *)
(***************************************************************************)
RELOCAOUT == 97
COBO == 99
DEBUG == 100
PRELOAD == 101
FOLLOWFORK == 102
\* HIDE in the source (a reserved word here)
HIDE_KEY == 104
RELOCSO == 108
NOMPI == 109
NOCLEAN == 110
LOCATION == 111
PUSH == 112
PULL == 113
PYTHONPREFIX == 114
STRIP == 115
PORT == 116
RELOCEXEC == 120
RELOCPY == 121
DISABLE_LOGGING == 122

\* the security-model identifiers of spindle_launch.h
OPT_SEC_MUNGE == 0
OPT_SEC_KEYLMON == 1
OPT_SEC_KEYFILE == 2
OPT_SEC_NULL == 3

SECMUNGE == 256 + OPT_SEC_MUNGE
SECKEYLMON == 256 + OPT_SEC_KEYLMON
SECKEYFILE == 256 + OPT_SEC_KEYFILE
SECNULL == 256 + OPT_SEC_NULL

GROUP_RELOC == 1
GROUP_PUSHPULL == 2
GROUP_NETWORK == 3
GROUP_SEC == 4
GROUP_MISC == 5

ARGP_KEY_ARG == 0
ARGP_KEY_END == 16777217
ARGP_KEY_NO_ARGS == 16777218
ARGP_KEY_INIT == 16777219
ARGP_KEY_SUCCESS == 16777220
ARGP_KEY_ARGS == 16777222
ARGP_KEY_FINI == 16777223
ARGP_ERR_UNKNOWN == 7

(***************************************************************************)
(* Build configurations: the preprocessor symbols that select the security *)
(* models compiled in.  At least one is defined (#error otherwise).        *)
(***************************************************************************)
SecSymbols == {"MUNGE", "SECLMON", "KEYFILE", "ENABLE_NULL_ENCRYPTION"}
Builds == SUBSET SecSymbols \ {{}}
FullBuild == SecSymbols

DEFAULT_SEC(b) ==
  IF "MUNGE" \in b THEN OPT_SEC_MUNGE
  ELSE IF "SECLMON" \in b THEN OPT_SEC_KEYFILE
  ELSE IF "KEYFILE" \in b THEN OPT_SEC_KEYFILE
  ELSE OPT_SEC_NULL

(***************************************************************************)
(* Option masks                                                            *)
(***************************************************************************)
all_reloc_opts ==
  {"OPT_RELOCAOUT", "OPT_RELOCSO", "OPT_RELOCEXEC", "OPT_RELOCPY", "OPT_FOLLOWFORK"}
all_network_opts == {"OPT_COBO"}
all_pushpull_opts == {"OPT_PUSH", "OPT_PULL"}
all_misc_opts == {"OPT_STRIP", "OPT_DEBUG", "OPT_PRELOAD", "OPT_NOCLEAN"}

default_reloc_opts ==
  {"OPT_RELOCAOUT", "OPT_RELOCSO", "OPT_RELOCEXEC", "OPT_RELOCPY", "OPT_FOLLOWFORK"}
default_network_opts == {"OPT_COBO"}

\* default_pushpull_opts naming the other model
default_pushpull_pull == {"OPT_PULL"}

default_pushpull_opts == {"OPT_PUSH"}
default_misc_opts == {"OPT_STRIP"}
default_sec(b) == DEFAULT_SEC(b)

\* the bits of the two-bit security field that the value x sets
SecField(x) ==
  (IF x % 2 = 1 THEN {"OPT_SEC_BIT0"} ELSE {}) \cup
  (IF (x \div 2) % 2 = 1 THEN {"OPT_SEC_BIT1"} ELSE {})

\* OPT_SET_SEC(OPT, X): OPT |= X << (position of the security field)
OPT_SET_SEC(o, x) == o \cup SecField(x)

\* compiled defaults of config.h
SPINDLE_PORT == 21940
SPINDLE_LOC == <<"/", "t">>

(***************************************************************************)
(* The option table                                                        *)
(***************************************************************************)
YESNO == <<"y", "e", "s", "|", "n", "o">>
ArgNumber == <<"n", "u", "m">>
ArgDirectory == <<"d", "i", "r">>
ArgPath == <<"=", "p">>
ArgFile == <<"F">>

Row(name, key, arg, group) ==
  [name |-> name, key |-> key, arg |-> arg, group |-> group]

OptionsEnd == Row("", 0, NULL, 0)

options(b) ==
  << Row("reloc-aout", RELOCAOUT, YESNO, GROUP_RELOC),
     Row("reloc-libs", RELOCSO, YESNO, GROUP_RELOC),
     Row("reloc-python", RELOCPY, YESNO, GROUP_RELOC),
     Row("reloc-exec", RELOCEXEC, YESNO, GROUP_RELOC),
     Row("follow-fork", FOLLOWFORK, YESNO, GROUP_RELOC),
     Row("push", PUSH, NULL, GROUP_PUSHPULL),
     Row("pull", PULL, NULL, GROUP_PUSHPULL),
     Row("cobo", COBO, NULL, GROUP_NETWORK),
     Row("port", PORT, ArgNumber, GROUP_NETWORK),
     Row("location", LOCATION, ArgDirectory, GROUP_NETWORK) >>
  \o (IF "MUNGE" \in b
        THEN << Row("security-munge", SECMUNGE, NULL, GROUP_SEC) >> ELSE << >>)
  \o (IF "SECLMON" \in b
        THEN << Row("security-lmon", SECKEYLMON, NULL, GROUP_SEC) >> ELSE << >>)
  \o (IF "KEYFILE" \in b
        THEN << Row("security-keyfile", SECKEYFILE, NULL, GROUP_SEC) >> ELSE << >>)
  \o (IF "ENABLE_NULL_ENCRYPTION" \in b
        THEN << Row("security-none", SECNULL, NULL, GROUP_SEC) >> ELSE << >>)
  \o
  << Row("python-prefix", PYTHONPREFIX, ArgPath, GROUP_MISC),
     Row("debug", DEBUG, YESNO, GROUP_MISC),
     Row("preload", PRELOAD, ArgFile, GROUP_MISC),
     Row("strip", STRIP, YESNO, GROUP_MISC),
     Row("noclean", NOCLEAN, YESNO, GROUP_MISC),
     Row("disable-logging", DISABLE_LOGGING, NULL, GROUP_MISC),
     Row("no-mpi", NOMPI, NULL, 0),
     Row("no-hide", HIDE_KEY, NULL, GROUP_MISC),
     OptionsEnd >>

\* for (entry = options; entry->key; entry++) if (entry->key == key) break;
RECURSIVE FindEntry(_, _, _)
FindEntry(tab, i, key) ==
  IF tab[i].key = 0 THEN tab[i]
  ELSE IF tab[i].key = key THEN tab[i]
  ELSE FindEntry(tab, i + 1, key)

opt_key_to_code(key) ==
  CASE key = RELOCAOUT -> {"OPT_RELOCAOUT"}
    [] key = COBO -> {"OPT_COBO"}
    [] key = DEBUG -> {"OPT_DEBUG"}
    [] key = PRELOAD -> {"OPT_PRELOAD"}
    [] key = FOLLOWFORK -> {"OPT_FOLLOWFORK"}
    [] key = RELOCSO -> {"OPT_RELOCSO"}
    [] key = PUSH -> {"OPT_PUSH"}
    [] key = PULL -> {"OPT_PULL"}
    [] key = STRIP -> {"OPT_STRIP"}
    [] key = RELOCEXEC -> {"OPT_RELOCEXEC"}
    [] key = RELOCPY -> {"OPT_RELOCPY"}
    [] key = NOCLEAN -> {"OPT_NOCLEAN"}
    [] OTHER -> {}


\* multi_bits_set testing v & (v - 1) against the wrong outcome
multi_bits_set_never(v) == FALSE

\* (v & (v - 1)) != 0: v - 1 clears the lowest set bit of a non-zero v
multi_bits_set(v) ==
  IF v = {} THEN FALSE ELSE v \ {CHOOSE b \in v : TRUE} # {}

(***************************************************************************)
(* The yes/no literals compared with strcmp                                *)
(***************************************************************************)
LitYes == <<"y", "e", "s">>
LitY == <<"y">>
LitNo == <<"n", "o">>
LitN == <<"n">>

(***************************************************************************)
(* The messages of the argp_error calls.  argp_error prints the message    *)
(* and, argp_parse having been given no ARGP_NO_EXIT flag, exits.          *)
(***************************************************************************)
NoError == ""
ErrYesNo == "must be 'yes' or 'no'"
ErrPort == "Port was given a 0 value"
ErrConflict == "Cannot have the same option both enabled and disabled"
ErrMultiNetwork == "Cannot enable multiple network options"
ErrMultiPushPull == "Cannot enable both push and pull options"
ErrNoCommand == "No MPI command line found"

\* parse() returned ret, leaving the statics as g
Return(g, ret) == [g |-> g, ret |-> ret, error |-> NoError]
\* parse() called argp_error(state, msg) with the statics as g
ArgpError(g, msg) == [g |-> g, ret |-> -1, error |-> msg]

(***************************************************************************)
(* The branches of parse(), in the order of its if / else-if chain.  G is  *)
(* the record of the statics before the call.                              *)
(***************************************************************************)
\* if (entry->arg == YESNO): opt is the feature bit of the option
parse_yesno_lenient(arg, opt, G) ==
  IF arg = LitYes \/ arg = LitY
  THEN Return([G EXCEPT !.enabled_opts = @ \cup opt], 0)
  ELSE Return([G EXCEPT !.disabled_opts = @ \cup opt], 0)
parse_yesno(arg, opt, G) ==
  IF arg = LitYes \/ arg = LitY
  THEN Return([G EXCEPT !.enabled_opts = @ \cup opt], 0)
  ELSE IF arg = LitNo \/ arg = LitN
  THEN Return([G EXCEPT !.disabled_opts = @ \cup opt], 0)
  ELSE ArgpError(G, ErrYesNo)

\* else if (entry->key && entry->arg == NULL && opt)
parse_flag(opt, G) == Return([G EXCEPT !.enabled_opts = @ \cup opt], 0)

\* else if (entry->key == PRELOAD)
parse_preload_file_only(arg, opt, G) ==
  Return([G EXCEPT !.preload_file = arg], 0)
parse_preload(arg, opt, G) ==
  Return([G EXCEPT !.enabled_opts = @ \cup opt, !.preload_file = arg], 0)

\* else if (entry->key == PORT)
parse_port(arg, G) ==
  LET p == ToUnsigned(atoi(arg))
  IN  IF p = 0 THEN ArgpError([G EXCEPT !.spindle_port = p], ErrPort)
      ELSE Return([G EXCEPT !.spindle_port = p], 0)

\* else if (entry->key == LOCATION)
parse_location(arg, G) == Return([G EXCEPT !.spindle_location = arg], 0)

\* else if (key == PYTHONPREFIX)
parse_pythonprefix_first(arg, G) ==
  IF G.user_python_prefixes # NULL THEN Return(G, 0)
  ELSE Return([G EXCEPT !.user_python_prefixes = arg], 0)
parse_pythonprefix(arg, G) == Return([G EXCEPT !.user_python_prefixes = arg], 0)

\* else if (key == NOMPI)
parse_nompi_flag_only(G) == Return([G EXCEPT !.use_mpi = FALSE], 0)
parse_nompi(G) ==
  Return([G EXCEPT !.use_mpi = FALSE, !.opts = @ \cup {"OPT_NOMPI"}], 0)

\* else if (key == HIDE)
parse_hide(G) ==
  Return([G EXCEPT !.hide_fd = FALSE, !.opts = @ \cup {"OPT_NOHIDE"}], 0)

\* else if (entry->group == GROUP_SEC)
parse_sec(key, G) == Return([G EXCEPT !.sec_model = key - 256], 0)


\* parse_arg accepting the word instead of answering ARGP_ERR_UNKNOWN
parse_arg_accept(state, G) == Return(G, 0)

\* else if (key == ARGP_KEY_ARG)
parse_arg(state, G) ==
  IF state.argc = 0 THEN Return(G, 0) ELSE Return(G, ARGP_ERR_UNKNOWN)

\* else if (key == ARGP_KEY_ARGS)
parse_args(state, G) ==
  Return([G EXCEPT !.mpi_argv = state.next,
                   !.mpi_argc = state.argc - state.next,
                   !.done = TRUE], 0)


\* bundle_opts without the mask of the disabled bits
bundle_opts_keep_disabled(all, dflt, G) == all \cap (G.enabled_opts \cup dflt)

\* all & ~disabled_opts & (enabled_opts | dflt), for the relocation and the
\* miscellaneous group
bundle_opts(all, dflt, G) ==
  (all \ G.disabled_opts) \cap (G.enabled_opts \cup dflt)

\* enabled ? enabled : dflt, for the network and the push/pull group
one_of_opts_with_default(enabled, dflt) == enabled \cup dflt
one_of_opts(enabled, dflt) == IF enabled # {} THEN enabled ELSE dflt

\* else if (key == ARGP_KEY_END), after the check of enabled against
\* disabled: resolve the accumulated sets into opts
parse_end_resolve(G, b) ==
  LET enabled_network_opts == G.enabled_opts \cap all_network_opts
  IN
  IF multi_bits_set(enabled_network_opts)
  THEN ArgpError(G, ErrMultiNetwork)
  ELSE
    LET o1 == G.opts \cup one_of_opts(enabled_network_opts, default_network_opts)
        enabled_pushpull_opts == G.enabled_opts \cap all_pushpull_opts
    IN
    IF multi_bits_set(enabled_pushpull_opts)
    THEN ArgpError([G EXCEPT !.opts = o1], ErrMultiPushPull)
    ELSE
      LET o2 == o1 \cup one_of_opts(enabled_pushpull_opts, default_pushpull_opts)
          o3 == o2 \cup bundle_opts(all_reloc_opts, default_reloc_opts, G)
          sm == IF G.sec_model = -1 THEN default_sec(b) ELSE G.sec_model
          o4 == OPT_SET_SEC(o3, sm)
          o5 == o4 \cup bundle_opts(all_misc_opts, default_misc_opts, G)
      IN  Return([G EXCEPT !.opts = o5, !.sec_model = sm], 0)


\* parse_end without the check of enabled against disabled
parse_end_unchecked(G, b) == parse_end_resolve(G, b)

\* else if (key == ARGP_KEY_END)
parse_end(G, b) ==
  IF G.enabled_opts \cap G.disabled_opts # {}
  THEN ArgpError(G, ErrConflict)
  ELSE parse_end_resolve(G, b)


\* parse_no_args without the error
parse_no_args_silent(G) == Return(G, 0)

\* else if (key == ARGP_KEY_NO_ARGS)
parse_no_args(G) == ArgpError(G, ErrNoCommand)

(***************************************************************************)
(* parse(key, arg, state): state is [argc, next] of struct argp_state, G   *)
(* the statics before the call, b the build.                               *)
(***************************************************************************)
parse(key, arg, state, G, b) ==
  LET entry == FindEntry(options(b), 1, key)
      opt == opt_key_to_code(key)
  IN
  IF G.done /\ key # ARGP_KEY_END THEN Return(G, 0)
  ELSE IF entry.arg = YESNO THEN parse_yesno(arg, opt, G)
  ELSE IF entry.key # 0 /\ entry.arg = NULL /\ opt # {} THEN parse_flag(opt, G)
  ELSE IF entry.key = PRELOAD THEN parse_preload(arg, opt, G)
  ELSE IF entry.key = PORT THEN parse_port(arg, G)
  ELSE IF entry.key = LOCATION THEN parse_location(arg, G)
  ELSE IF key = DISABLE_LOGGING
  THEN Return([G EXCEPT !.logging_enabled = FALSE], 0)
  ELSE IF key = NOMPI THEN parse_nompi(G)
  ELSE IF key = HIDE_KEY THEN parse_hide(G)
  ELSE IF entry.group = GROUP_SEC THEN parse_sec(key, G)
  ELSE IF key = ARGP_KEY_ARG THEN parse_arg(state, G)
  ELSE IF key = PYTHONPREFIX THEN parse_pythonprefix(arg, G)
  ELSE IF key = ARGP_KEY_ARGS THEN parse_args(state, G)
  ELSE IF key = ARGP_KEY_END THEN parse_end(G, b)
  ELSE IF key = ARGP_KEY_NO_ARGS THEN parse_no_args(G)
  ELSE Return(G, 0)

(***************************************************************************)
(* The python prefixes: python_prefixes is a static std::set<string>,      *)
(* modelled as the set of its members; iteration goes in ascending order   *)
(* of std::string's operator<.                                             *)
(***************************************************************************)
\* the characters used in prefixes, in the order of their codes
CharOrder == <<"/", "0", "1", "2", ":", "a", "b", "c", "p", "q">>
CharRank(c) == CHOOSE i \in 1..Len(CharOrder) : CharOrder[i] = c

\* std::string operator<: at the first difference the smaller character
\* decides; a proper prefix is smaller
RECURSIVE StrLess(_, _)
StrLess(a, b) ==
  IF b = << >> THEN FALSE
  ELSE IF a = << >> THEN TRUE
  ELSE IF Head(a) = Head(b) THEN StrLess(Tail(a), Tail(b))
  ELSE CharRank(Head(a)) < CharRank(Head(b))

\* the loop of parse_python_prefix over the rest s of the list, cur being
\* the segment read so far and S the set
RECURSIVE parse_python_prefix_loop(_, _, _)
parse_python_prefix_loop(s, cur, S) ==
  LET inserted == IF cur # << >> THEN S \cup {cur} ELSE S
  IN  IF s = << >> THEN inserted
      ELSE IF Head(s) = ":" THEN parse_python_prefix_loop(Tail(s), << >>, inserted)
      ELSE parse_python_prefix_loop(Tail(s), Append(cur, Head(s)), S)

\* parse_python_prefix(prefix): python_prefixes, S before the call, after it
parse_python_prefix(prefix, S) ==
  IF prefix = NULL THEN S ELSE parse_python_prefix_loop(prefix, << >>, S)

\* the loop of getPythonPrefixes over a non-empty set: result += *i; i++;
\* if (i == end) break; result += ":"
RECURSIVE join_prefixes(_)
join_prefixes(S) ==
  LET first == CHOOSE x \in S : \A y \in S \ {x} : StrLess(x, y)
  IN  IF S = {first} THEN first
      ELSE first \o <<":">> \o join_prefixes(S \ {first})

\* What a call of getPythonPrefixes can do when the set is S after the two
\* parse_python_prefix calls.  With S empty, begin() is end() and the loop
\* dereferences and increments it, which is undefined: the call may crash,
\* or return whatever the memory behind the set's header holds.
getPythonPrefixes_outcomes(S) ==
  IF S = {}
  THEN {[crash |-> TRUE, result |-> NULL],
        [crash |-> FALSE, result |-> << >>],
        [crash |-> FALSE, result |-> <<"?">>]}
  ELSE {[crash |-> FALSE, result |-> join_prefixes(S)]}

\* snprintf(num_s, 32, "%d", number) for a number of 0..99
DigitChar(d) == CHOOSE c \in Digits : DigitVal(c) = d
FormatInt(n) ==
  IF n < 10 THEN <<DigitChar(n)>> ELSE <<DigitChar(n \div 10), DigitChar(n % 10)>>

(***************************************************************************)
(* Command lines.  A token is what argp makes of one element of argv: an   *)
(* option of the table with its value (NULL for a flag), or a non-option   *)
(* word, which argp hands over under ARGP_KEY_ARG.                         *)
(***************************************************************************)
Tok(key, arg) == [key |-> key, arg |-> arg]
Str1(c) == <<c>>
Word(c) == Tok(ARGP_KEY_ARG, Str1(c))
IsWord(t) == t.key = ARGP_KEY_ARG
ProgName == Word("s")

YesNoKeys ==
  {RELOCAOUT, RELOCSO, RELOCPY, RELOCEXEC, FOLLOWFORK, DEBUG, STRIP, NOCLEAN}
SecKeys == {SECMUNGE, SECKEYLMON, SECKEYFILE, SECNULL}

\* the security options compiled into build b
SecTokens(b) ==
  (IF "MUNGE" \in b THEN {Tok(SECMUNGE, NULL)} ELSE {}) \cup
  (IF "SECLMON" \in b THEN {Tok(SECKEYLMON, NULL)} ELSE {}) \cup
  (IF "KEYFILE" \in b THEN {Tok(SECKEYFILE, NULL)} ELSE {}) \cup
  (IF "ENABLE_NULL_ENCRYPTION" \in b THEN {Tok(SECNULL, NULL)} ELSE {})

\* the families that give one yes/no option every literal, and their option
LiteralKey ==
  [lit_reloc_aout |-> RELOCAOUT, lit_reloc_libs |-> RELOCSO,
   lit_reloc_python |-> RELOCPY, lit_reloc_exec |-> RELOCEXEC,
   lit_follow_fork |-> FOLLOWFORK, lit_debug |-> DEBUG, lit_strip |-> STRIP,
   lit_noclean |-> NOCLEAN]
LiteralVocabs == DOMAIN LiteralKey
\* the literals that are none of yes, y, no, n
BadLiterals == {<<"Y", "e", "s">>, <<"N", "O">>, << >>}

\* The families of command lines explored; each is a set of option tokens.
Vocabs == {"reloc", "misc", "model", "scalar", "security"} \cup LiteralVocabs
\* the family of the python prefix lists
PyVocabs == {"python"}
\* the family of the lines of a process that calls parseArgs again
AgainVocabs == {"again"}

VocabTokens(v, b) ==
  CASE v = "reloc" ->
         {Tok(k, a) : k \in {RELOCAOUT, RELOCEXEC, DEBUG}, a \in {LitYes, LitNo}}
           \cup {Tok(RELOCSO, LitNo), Tok(FOLLOWFORK, LitNo)}
    [] v = "misc" ->
         {Tok(k, a) : k \in {STRIP, NOCLEAN}, a \in {LitYes, LitNo}}
           \cup {Tok(PRELOAD, Str1("f")), Tok(PRELOAD, Str1("g")),
                 Tok(DEBUG, LitYes), Tok(RELOCEXEC, LitNo),
                 Tok(STRIP, <<"Y", "e", "s">>)}
    [] v = "model" ->
         {Tok(PUSH, NULL), Tok(PULL, NULL), Tok(COBO, NULL), Tok(NOMPI, NULL),
          Tok(HIDE_KEY, NULL), Tok(DISABLE_LOGGING, NULL),
          Tok(FOLLOWFORK, LitYes), Tok(FOLLOWFORK, LitNo)}
    [] v = "scalar" ->
         {Tok(PORT, a) : a \in {<<"0">>, <<"a", "b", "c">>, <<>>,
                                <<"1", "2", "3", "4", "5">>, <<"8", "0">>,
                                <<"1", "x">>, <<"-", "1">>}}
           \cup {Tok(LOCATION, Str1("l")), Tok(LOCATION, Str1("m")),
                 Tok(PYTHONPREFIX, Str1("p")), Tok(PYTHONPREFIX, Str1("q"))}
    [] v = "security" ->
         SecTokens(b) \cup {Tok(PULL, NULL), Tok(DEBUG, LitYes)}
    [] v \in LiteralVocabs ->
         {Tok(LiteralKey[v], a) : a \in {LitYes, LitY, LitNo, LitN} \cup BadLiterals}
    [] v = "python" ->
         {Tok(PYTHONPREFIX, a) :
            a \in {<<"/", "b", ":", "/", "c">>, <<"/", "c", ":", "/", "b">>,
                   <<":">>, << >>, <<"/", "b", ":", ":", "/", "a", ":">>}}
    [] v = "again" -> {Tok(PUSH, NULL), Tok(PULL, NULL)}

\* the option-like token that may follow the command word
VocabTail(v, b) ==
  CASE v = "reloc" -> {Tok(DEBUG, LitYes)}
    [] v = "misc" -> {Tok(NOCLEAN, <<"?">>)}
    [] v = "model" -> {Tok(PULL, NULL)}
    [] v = "scalar" -> {Tok(PORT, <<"0">>)}
    [] v = "security" -> {Tok(CHOOSE k \in SecKeys : Tok(k, NULL) \in SecTokens(b), NULL)}
    [] v \in LiteralVocabs -> {Tok(LiteralKey[v], <<"N", "O">>)}
    [] v = "python" -> {Tok(PYTHONPREFIX, <<":">>)}
    [] v = "again" -> {Tok(PULL, NULL)}

\* the sequences of at most n tokens of S
RECURSIVE SeqsUpTo(_, _)
SeqsUpTo(S, n) ==
  IF n = 0 THEN {<< >>}
  ELSE LET shorter == SeqsUpTo(S, n - 1)
       IN  shorter \cup {Append(q, t) : q \in shorter, t \in S}

\* the job commands: a command word, then words and option-like tokens
Commands(v, b) ==
  {<<Word("a")>> \o rest : rest \in SeqsUpTo(VocabTail(v, b) \cup {Word("x")}, MaxCmd - 1)}

\* the builds a family is explored under
VocabBuilds(v) ==
  IF v = "security" THEN Builds
  ELSE IF v = "model" THEN {FullBuild \cup {"USAGE_LOGGING_FILE"}}
  ELSE {FullBuild}

\* PYTHON_INST_PREFIX in the builds a family is explored under
VocabPythonDefaults(v) ==
  IF v = "python"
  THEN {<<"/", "a", ":", "/", "b">>, <<"/", "b", ":", "/", "a">>, << >>, <<":">>}
  ELSE {<<"/", "a", ":", "/", "b">>}

DEFAULT_LOGGING_ENABLED(b) == "USAGE_LOGGING_FILE" \in b

(***************************************************************************)
(* State                                                                   *)
(***************************************************************************)
VARIABLES
  build,                 \* the preprocessor symbols of the build
  vocab,                 \* the family the command line is drawn from
  argv,                  \* the command line; argv[i + 1] is C's argv[i]
  pc,                    \* where parseArgs is
  next,                  \* state->next of argp
  args_processed,        \* argp's count of non-option arguments consumed
  error,                 \* the message the process exited with
  calls,                 \* the calls of parseArgs so far, this one included
  default_python_prefixes, \* PYTHON_INST_PREFIX of the build
  python_prefixes,       \* the static set of getPythonPrefixes
  py_result,             \* what getPythonPrefixes returned, NULL before it
  enabled_opts, disabled_opts, preload_file, mpi_argv, mpi_argc, done,
  use_mpi, hide_fd, sec_model, user_python_prefixes, logging_enabled,
  spindle_port, spindle_location, opts

statics ==
  <<enabled_opts, disabled_opts, preload_file, mpi_argv, mpi_argc, done,
    use_mpi, hide_fd, sec_model, user_python_prefixes, logging_enabled,
    spindle_port, spindle_location, opts>>

vars ==
  <<build, vocab, argv, pc, next, args_processed, error, calls,
    default_python_prefixes, python_prefixes, py_result, statics>>

\* the statics as one record
G ==
  [enabled_opts |-> enabled_opts, disabled_opts |-> disabled_opts,
   preload_file |-> preload_file, mpi_argv |-> mpi_argv, mpi_argc |-> mpi_argc,
   done |-> done, use_mpi |-> use_mpi, hide_fd |-> hide_fd,
   sec_model |-> sec_model, user_python_prefixes |-> user_python_prefixes,
   logging_enabled |-> logging_enabled, spindle_port |-> spindle_port,
   spindle_location |-> spindle_location, opts |-> opts]

\* the statics become g
Store(g) ==
  /\ enabled_opts' = g.enabled_opts
  /\ disabled_opts' = g.disabled_opts
  /\ preload_file' = g.preload_file
  /\ mpi_argv' = g.mpi_argv
  /\ mpi_argc' = g.mpi_argc
  /\ done' = g.done
  /\ use_mpi' = g.use_mpi
  /\ hide_fd' = g.hide_fd
  /\ sec_model' = g.sec_model
  /\ user_python_prefixes' = g.user_python_prefixes
  /\ logging_enabled' = g.logging_enabled
  /\ spindle_port' = g.spindle_port
  /\ spindle_location' = g.spindle_location
  /\ opts' = g.opts

\* the static initialisers (a static pointer or integer without one is zero)
NullArgv == -1

\* the start of the process for a command line of one of the families V
InitFor(V) ==
  /\ vocab \in V
  /\ build \in VocabBuilds(vocab)
  /\ default_python_prefixes \in VocabPythonDefaults(vocab)
  /\ python_prefixes = {}
  /\ py_result = NULL
  /\ calls = 1
  /\ argv = <<ProgName>>
  /\ pc = "entry"
  /\ next = 0
  /\ args_processed = 0
  /\ error = NoError
  /\ enabled_opts = {}
  /\ disabled_opts = {}
  /\ preload_file = NULL
  /\ mpi_argv = NullArgv
  /\ mpi_argc = 0
  /\ done = FALSE
  /\ use_mpi = TRUE
  /\ hide_fd = TRUE
  /\ sec_model = -1
  /\ user_python_prefixes = NULL
  /\ logging_enabled = DEFAULT_LOGGING_ENABLED(build)
  /\ spindle_port = SPINDLE_PORT
  /\ spindle_location = SPINDLE_LOC
  /\ opts = {}

Init == InitFor(Vocabs)

(***************************************************************************)
(* argp_parse(&arg_parser, argc, argv, ARGP_IN_ORDER, NULL, NULL): the     *)
(* calls it makes to parse(), one action per call.                         *)
(***************************************************************************)
\* struct argp_state as parse() sees it when the line is av and next is n
ArgpState(av, n) == [argc |-> Len(av), next |-> n]

\* a token of argv is still to be scanned
Pending == next < Len(argv)
\* the command word is on the line: nothing more is appended
Closed == \E i \in 2..Len(argv) : IsWord(argv[i])

\* the outcome r of a call: the statics, and the exit if argp_error was called
Outcome(r) ==
  /\ Store(r.g)
  /\ error' = r.error

\* parseArgs up to the call of argp_parse
ParseArgsEntry ==
  /\ pc = "entry"
  /\ Store([G EXCEPT !.done = FALSE])
  /\ pc' = "init"
  /\ UNCHANGED <<build, vocab, calls, default_python_prefixes, python_prefixes,
               py_result, argv, next, args_processed, error>>

DeliverInit ==
  /\ pc = "init"
  /\ LET r == parse(ARGP_KEY_INIT, NULL, ArgpState(argv, next), G, build)
     IN  /\ Outcome(r)
         /\ pc' = IF r.error # NoError THEN "exit" ELSE "scan"
  /\ next' = 1
  /\ UNCHANGED <<build, vocab, calls, default_python_prefixes, python_prefixes,
               py_result, argv, args_processed>>

\* the option tokens that can come next
OptionChoices ==
  IF Pending THEN {t \in {argv[next + 1]} : ~IsWord(t)}
  ELSE IF ~Closed /\ Len(argv) - 1 < MaxOpts THEN VocabTokens(vocab, build)
  ELSE {}

DeliverOption ==
  /\ pc = "scan"
  /\ \E t \in OptionChoices :
       LET av == IF Pending THEN argv ELSE Append(argv, t)
           r == parse(t.key, t.arg, ArgpState(av, next + 1), G, build)
       IN  /\ argv' = av
           /\ Outcome(r)
           /\ pc' = IF r.error # NoError THEN "exit"
                    ELSE IF next + 1 = Len(av) /\ Closed THEN "end"
                    ELSE "scan"
  /\ next' = next + 1
  /\ UNCHANGED <<build, vocab, calls, default_python_prefixes, python_prefixes,
               py_result, args_processed>>

\* the ways the line can go on with a non-option word
ArgChoices ==
  IF Pending THEN (IF IsWord(argv[next + 1]) THEN {<< >>} ELSE {})
  ELSE IF Closed THEN {}
  ELSE Commands(vocab, build)

\* a non-option word: ARGP_KEY_ARG with the word consumed; when parse()
\* answers ARGP_ERR_UNKNOWN the word is put back for ARGP_KEY_ARGS
DeliverArg ==
  /\ pc = "scan"
  /\ \E cmd \in ArgChoices :
       LET av == argv \o cmd
           r == parse(ARGP_KEY_ARG, av[next + 1].arg, ArgpState(av, next + 1), G, build)
       IN  /\ argv' = av
           /\ Outcome(r)
           /\ IF r.error # NoError
              THEN pc' = "exit" /\ UNCHANGED <<next, args_processed>>
              ELSE IF r.ret = ARGP_ERR_UNKNOWN
              THEN pc' = "args" /\ UNCHANGED <<next, args_processed>>
              ELSE /\ next' = next + 1
                   /\ args_processed' = args_processed + 1
                   /\ pc' = IF next + 1 = Len(av) THEN "end" ELSE "scan"
  /\ UNCHANGED <<build, vocab, calls, default_python_prefixes, python_prefixes,
               py_result>>

\* ARGP_KEY_ARGS: when parse() answers 0 and leaves next alone, argp takes
\* all the remaining arguments as consumed
DeliverArgs ==
  /\ pc = "args"
  /\ LET r == parse(ARGP_KEY_ARGS, NULL, ArgpState(argv, next), G, build)
     IN  /\ Store(r.g)
         /\ IF r.error # NoError
            THEN pc' = "exit" /\ error' = r.error /\ UNCHANGED <<next, args_processed>>
            ELSE IF r.ret = 0
            THEN /\ pc' = "end"
                 /\ error' = NoError
                 /\ next' = Len(argv)
                 /\ args_processed' = args_processed + (Len(argv) - next)
            ELSE /\ pc' = "exit"
                 /\ error' = "Too many arguments"
                 /\ UNCHANGED <<next, args_processed>>
  /\ UNCHANGED <<build, vocab, calls, default_python_prefixes, python_prefixes,
               py_result, argv>>

\* the line ended without a non-option word
DeliverNoArgs ==
  /\ pc = "scan"
  /\ ~Pending
  /\ args_processed = 0
  /\ LET r == parse(ARGP_KEY_NO_ARGS, NULL, ArgpState(argv, next), G, build)
     IN  /\ Outcome(r)
         /\ pc' = IF r.error # NoError THEN "exit" ELSE "end"
  /\ UNCHANGED <<build, vocab, calls, default_python_prefixes, python_prefixes,
               py_result, argv, next, args_processed>>

DeliverEnd ==
  /\ pc = "end"
  /\ LET r == parse(ARGP_KEY_END, NULL, ArgpState(argv, next), G, build)
     IN  /\ Outcome(r)
         /\ pc' = IF r.error # NoError THEN "exit" ELSE "success"
  /\ UNCHANGED <<build, vocab, calls, default_python_prefixes, python_prefixes,
               py_result, argv, next, args_processed>>

DeliverSuccess ==
  /\ pc = "success"
  /\ LET r == parse(ARGP_KEY_SUCCESS, NULL, ArgpState(argv, next), G, build)
     IN  /\ Outcome(r)
         /\ pc' = IF r.error # NoError THEN "exit" ELSE "fini"
  /\ UNCHANGED <<build, vocab, calls, default_python_prefixes, python_prefixes,
               py_result, argv, next, args_processed>>

\* after ARGP_KEY_FINI argp_parse returns 0
DeliverFini ==
  /\ pc = "fini"
  /\ LET r == parse(ARGP_KEY_FINI, NULL, ArgpState(argv, next), G, build)
     IN  /\ Outcome(r)
         /\ pc' = IF r.error # NoError THEN "exit" ELSE "parsed"
  /\ UNCHANGED <<build, vocab, calls, default_python_prefixes, python_prefixes,
               py_result, argv, next, args_processed>>


\* mode_override leaving the relocation of exec targets on
mode_override_aout_only(o) ==
  IF "OPT_DEBUG" \in o
  THEN (o \ {"OPT_RELOCAOUT"}) \cup {"OPT_REMAPEXEC"}
  ELSE o

\* if (opts & OPT_DEBUG) { ... }
mode_override(o) ==
  IF "OPT_DEBUG" \in o
  THEN (o \ {"OPT_RELOCAOUT", "OPT_RELOCEXEC"}) \cup {"OPT_REMAPEXEC"}
  ELSE o

\* parseArgs after argp_parse: the debug override and return opts
ParseArgsReturn ==
  /\ pc = "parsed"
  /\ Store([G EXCEPT !.opts = mode_override(opts)])
  /\ pc' = "returned"
  /\ UNCHANGED <<build, vocab, calls, default_python_prefixes, python_prefixes,
               py_result, argv, next, args_processed, error>>

\* a call of getPythonPrefixes after parseArgs returned
GetPythonPrefixes ==
  /\ pc = "returned"
  /\ py_result = NULL
  /\ python_prefixes' =
       parse_python_prefix(user_python_prefixes,
         parse_python_prefix(default_python_prefixes, python_prefixes))
  /\ \E o \in getPythonPrefixes_outcomes(python_prefixes') :
       IF o.crash
       THEN pc' = "crash" /\ UNCHANGED py_result
       ELSE py_result' = o.result /\ UNCHANGED pc
  /\ UNCHANGED <<build, vocab, calls, default_python_prefixes, argv, next,
               args_processed, error, statics>>

Next ==
  \/ ParseArgsEntry
  \/ DeliverInit
  \/ DeliverOption
  \/ DeliverArg
  \/ DeliverArgs
  \/ DeliverNoArgs
  \/ DeliverEnd
  \/ DeliverSuccess
  \/ DeliverFini
  \/ ParseArgsReturn
  \/ GetPythonPrefixes

Spec == Init /\ [][Next]_vars

(***************************************************************************)
(* The python prefix lists: every pair of a compiled default list and a    *)
(* user list of the family "python".                                       *)
(***************************************************************************)
InitPy == InitFor(PyVocabs)
SpecPy == InitPy /\ [][Next]_vars

(***************************************************************************)
(* A process that calls parseArgs again with another command line after    *)
(* the call before returned.  Only done is assigned at the start of        *)
(* parseArgs; every other static keeps what the call before left.          *)
(***************************************************************************)
MaxCalls == 2

ParseArgsAgain ==
  /\ pc = "returned"
  /\ calls < MaxCalls
  /\ calls' = calls + 1
  /\ pc' = "entry"
  /\ argv' = <<ProgName>>
  /\ next' = 0
  /\ args_processed' = 0
  /\ py_result' = NULL
  /\ UNCHANGED <<build, vocab, default_python_prefixes, python_prefixes, error,
               statics>>

InitAgain == InitFor(AgainVocabs)
NextAgain == Next \/ ParseArgsAgain
SpecAgain == InitAgain /\ [][NextAgain]_vars

(***************************************************************************)
(* A second delivery of ARGP_KEY_END to parse() after parseArgs returned.  *)
(* argp_parse never does this; SpecReplay adds it to ask what a repeated   *)
(* finalize does to the resolved configuration.                            *)
(***************************************************************************)
DeliverEndAgain ==
  /\ pc = "returned"
  /\ LET r == parse(ARGP_KEY_END, NULL, ArgpState(argv, next), G, build)
     IN  /\ Outcome(r)
         /\ pc' = IF r.error # NoError THEN "exit" ELSE "replayed"
  /\ UNCHANGED <<build, vocab, calls, default_python_prefixes, python_prefixes,
               py_result, argv, next, args_processed>>

NextReplay == Next \/ DeliverEndAgain

SpecReplay == Init /\ [][NextReplay]_vars

(***************************************************************************)
(* The accessors                                                           *)
(***************************************************************************)
getPreloadFile == preload_file
getPort == spindle_port
isLoggingEnabled == logging_enabled
isMPIJob == use_mpi
hideFDs == hide_fd
\* getAppArgs: the mpi_argc elements of argv from C index mpi_argv on
getAppArgs == [i \in 1..mpi_argc |-> argv[mpi_argv + i]]
\* getLocation(number): spindle_location + "/spindle." + number in decimal
getLocation(number) ==
  spindle_location \o <<"/", "s", "p", "i", "n", "d", "l", "e", ".">>
    \o FormatInt(number)
\* getPythonPrefixes(): what the call returned
getPythonPrefixes == py_result

TypeOK ==
  /\ pc \in {"entry", "init", "scan", "args", "end", "success", "fini",
             "parsed", "returned", "replayed", "exit", "crash"}
  /\ calls \in 1..MaxCalls
  /\ py_result # NULL => pc \in {"returned", "replayed", "exit"}
  /\ next \in 0..Len(argv)
  /\ (pc = "exit") = (error # NoError)

(***************************************************************************)
(* The command line as the user wrote it                                   *)
(***************************************************************************)
\* the place in argv of the first non-option word, one past the end if none
CmdIndex ==
  IF Closed
  THEN CHOOSE i \in 2..Len(argv) :
         IsWord(argv[i]) /\ \A j \in 2..(i - 1) : ~IsWord(argv[j])
  ELSE Len(argv) + 1
\* the places of the options before the command
OptIdx == 2..(CmdIndex - 1)
OptionSeq == SubSeq(argv, 2, CmdIndex - 1)

Given(k) == \E i \in OptIdx : argv[i].key = k
Enabling(k) == \E i \in OptIdx : argv[i].key = k /\ argv[i].arg \in {LitYes, LitY}
Disabling(k) == \E i \in OptIdx : argv[i].key = k /\ argv[i].arg \in {LitNo, LitN}
\* some yes/no feature is both enabled and disabled on the line
ConflictingLine == \E k \in YesNoKeys : Enabling(k) /\ Disabling(k)

\* the feature bits the line enables (yes/y, a flag, a preload file) and
\* disables (no/n)
EnabledBits ==
  UNION {opt_key_to_code(k) :
           k \in {k2 \in YesNoKeys : Enabling(k2)}
                   \cup {k2 \in {PUSH, PULL, COBO, PRELOAD} : Given(k2)}}
DisabledBits == UNION {opt_key_to_code(k) : k \in {k2 \in YesNoKeys : Disabling(k2)}}

\* ARGP_KEY_END was answered with 0
Resolved == pc \in {"success", "fini", "parsed", "returned"}
\* ... and the debug override has not run yet
Finalized == pc \in {"success", "fini", "parsed"}

RelocGroup ==
  {"OPT_RELOCAOUT", "OPT_RELOCSO", "OPT_RELOCPY", "OPT_RELOCEXEC", "OPT_FOLLOWFORK"}
MiscGroup == {"OPT_STRIP", "OPT_DEBUG", "OPT_PRELOAD", "OPT_NOCLEAN"}
\* what a line without options resolves to in build b
NoFlagOpts(b) ==
  {"OPT_COBO", "OPT_PUSH", "OPT_STRIP"} \cup RelocGroup \cup SecField(DEFAULT_SEC(b))

(***************************************************************************)
(* C1: a line that gives one yes/no feature both an enabling and a         *)
(* disabling literal, in either order and with other options in between,   *)
(* is never resolved: parseArgs does not return.  When the line has its    *)
(* command, so that the scan got through, the exit is the one of the       *)
(* conflicting-directive error, and that error is raised for no other      *)
(* line.                                                                   *)
(***************************************************************************)
C1_ConflictAborts ==
  /\ ConflictingLine => ~Resolved
  /\ ConflictingLine /\ Closed /\ pc = "exit" => error = ErrConflict
  /\ error = ErrConflict => ConflictingLine

C1_Witness ==
  /\ pc = "exit"
  /\ error = ErrConflict
  /\ \E i, j, l \in OptIdx :
       /\ i < j /\ j < l
       /\ argv[i].key \in YesNoKeys /\ argv[l].key = argv[i].key
       /\ argv[j].key # argv[i].key
       /\ argv[i].arg \in {LitNo, LitN} /\ argv[l].arg \in {LitYes, LitY}

(***************************************************************************)
(* C2: a line with no option and a command returns exactly the compiled    *)
(* defaults (COBO, PUSH, the five relocation bits, STRIP) and the encoding *)
(* of the default security model, and getPort() is the compiled port.      *)
(***************************************************************************)
C2_NoFlagsDefaults ==
  pc = "returned" /\ OptIdx = {} =>
    /\ opts = NoFlagOpts(build)
    /\ getPort = SPINDLE_PORT

C2_Witness == pc = "returned" /\ OptIdx = {} /\ Len(getAppArgs) >= 1

(***************************************************************************)
(* C3: after finalize and before the debug override, the relocation bits   *)
(* and the miscellaneous bits of opts are (defaults + enabled) - disabled; *)
(* a lone reloc-aout=no gives the no-flag result without OPT_RELOCAOUT.    *)
(***************************************************************************)
C3_BundleGroups ==
  Finalized =>
    /\ opts \cap RelocGroup = ((RelocGroup \cup EnabledBits) \ DisabledBits) \cap RelocGroup
    /\ opts \cap MiscGroup = (({"OPT_STRIP"} \cup EnabledBits) \ DisabledBits) \cap MiscGroup
    /\ OptionSeq = <<Tok(RELOCAOUT, LitNo)>> =>
         opts = NoFlagOpts(build) \ {"OPT_RELOCAOUT"}

C3_Witness ==
  /\ pc = "parsed"
  /\ Disabling(RELOCAOUT) /\ Enabling(DEBUG) /\ Disabling(RELOCSO)
  /\ "OPT_RELOCEXEC" \in opts

(***************************************************************************)
(* C4: push and pull together, in any order and any number of times, never *)
(* resolve, and the exit is the multi-selection error (unless the check of *)
(* enabled against disabled, which comes first, fails); the error is       *)
(* raised for no other line.  With neither the model is push, with one of  *)
(* them it is that one.                                                    *)
(***************************************************************************)
C4_PushPull ==
  /\ Given(PUSH) /\ Given(PULL) => ~Resolved
  /\ Given(PUSH) /\ Given(PULL) /\ Closed /\ pc = "exit" /\ ~ConflictingLine
       => error = ErrMultiPushPull
  /\ error = ErrMultiPushPull => Given(PUSH) /\ Given(PULL)
  /\ Resolved /\ ~Given(PULL) => opts \cap {"OPT_PUSH", "OPT_PULL"} = {"OPT_PUSH"}
  /\ Resolved /\ Given(PULL) => opts \cap {"OPT_PUSH", "OPT_PULL"} = {"OPT_PULL"}

C4_Witness ==
  /\ pc = "exit"
  /\ error = ErrMultiPushPull
  /\ \E i, j, l \in OptIdx :
       i < j /\ j < l /\ argv[i].key = PULL /\ argv[j].key = PUSH /\ argv[l].key = PULL

(***************************************************************************)
(* C5: two security-model options on one line abort at the second one, so  *)
(* that no resolved line has more than one.                                *)
(***************************************************************************)
SecSelections == {i \in OptIdx : argv[i].key \in SecKeys}

\* the security models the line selects
SecModelsSelected == {argv[i].key - 256 : i \in SecSelections}

C5_SecondSecurityAborts ==
  /\ Cardinality(SecModelsSelected) >= 2 => pc = "exit"
  /\ Resolved => Cardinality(SecSelections) <= 1

(***************************************************************************)
(* C6: every port value that is not a decimal numeral, or is one of value  *)
(* zero, aborts; the numeral of a positive N makes getPort() return N;     *)
(* without a port option getPort() is the compiled port.                   *)
(***************************************************************************)
Numeral(s) == s # << >> /\ \A i \in 1..Len(s) : s[i] \in Digits
\* a numeral with a sign counts as numeric
SignedNumeral(s) == Numeral(s) \/ (s # << >> /\ Head(s) \in {"-", "+"} /\ Numeral(Tail(s)))
BadPort(s) == ~SignedNumeral(s) \/ (Numeral(s) /\ atoi_digits(s, 0) = 0)
\* the place of the last port option before the command
LastPort == CHOOSE i \in OptIdx : argv[i].key = PORT /\ \A j \in OptIdx : argv[j].key = PORT => j <= i

C6_PortValidated ==
  /\ \A i \in OptIdx : argv[i].key = PORT /\ BadPort(argv[i].arg) => pc = "exit"
  /\ Resolved /\ Given(PORT) /\ Numeral(argv[LastPort].arg)
       => getPort = atoi_digits(argv[LastPort].arg, 0)
  /\ Resolved /\ ~Given(PORT) => getPort = SPINDLE_PORT

(***************************************************************************)
(* C7: a returned bitset with OPT_DEBUG has OPT_RELOCAOUT and              *)
(* OPT_RELOCEXEC clear and OPT_REMAPEXEC set, whatever the line said about *)
(* reloc-aout and reloc-exec, and debug=yes on the line puts OPT_DEBUG in  *)
(* the returned bitset; the override changes no other bit of what finalize *)
(* produced.                                                               *)
(***************************************************************************)
OverrideBits == {"OPT_RELOCAOUT", "OPT_RELOCEXEC", "OPT_REMAPEXEC"}

C7_DebugOverride ==
  /\ [](pc = "returned" /\ Enabling(DEBUG) => "OPT_DEBUG" \in opts)
  /\ [](pc = "returned" /\ "OPT_DEBUG" \in opts =>
          opts \cap OverrideBits = {"OPT_REMAPEXEC"})
  /\ [][pc = "parsed" /\ pc' = "returned" =>
          opts' \ OverrideBits = opts \ OverrideBits]_vars

C7_Witness ==
  /\ pc = "returned"
  /\ "OPT_DEBUG" \in opts
  /\ OptionSeq = <<Tok(RELOCAOUT, LitYes), Tok(DEBUG, LitYes), Tok(RELOCEXEC, LitYes)>>

(***************************************************************************)
(* C8: a second ARGP_KEY_END after parseArgs returned leaves every static  *)
(* (the resolved bitset and all scalar fields) as it was.                  *)
(***************************************************************************)
C8_SecondEndNoOp ==
  [][pc = "returned" /\ pc' = "replayed" => UNCHANGED statics]_vars

(***************************************************************************)
(* C9: getAppArgs is the suffix of the line that starts at the first       *)
(* non-option word; once the command is on the line no step changes the    *)
(* enabled or disabled set or a scalar field the options write, and the    *)
(* only exits left are those of finalize, never a value error of a token   *)
(* of the command.                                                         *)
(***************************************************************************)
C9_CommandCaptured ==
  /\ [](Resolved => getAppArgs = SubSeq(argv, CmdIndex, Len(argv)))
  /\ [][Closed => UNCHANGED <<enabled_opts, disabled_opts, preload_file, use_mpi,
                              hide_fd, user_python_prefixes, logging_enabled,
                              spindle_port, spindle_location, argv>>]_vars
  /\ [](Closed /\ pc = "exit" =>
          error \in {ErrConflict, ErrMultiNetwork, ErrMultiPushPull})

C9_Witness ==
  /\ pc = "returned"
  /\ Len(getAppArgs) >= 2
  /\ getAppArgs[1] = Word("a")
  /\ getAppArgs[2] = Tok(PORT, <<"0">>)
  /\ Len(OptionSeq) >= 1

(***************************************************************************)
(* C10: a line without a non-option word never gets to finalize: the exit  *)
(* is the missing-command error (unless a value error came first), and a   *)
(* resolved line has a non-empty captured command.                         *)
(***************************************************************************)
C10_CommandRequired ==
  /\ pc \in {"end", "success", "fini", "parsed", "returned"} =>
       Closed /\ Len(getAppArgs) >= 1
  /\ pc = "exit" /\ ~Closed /\ error \notin {ErrYesNo, ErrPort} => error = ErrNoCommand
  /\ error = ErrNoCommand => ~Closed

C10_Witness ==
  /\ pc = "exit"
  /\ error = ErrNoCommand
  /\ Len(argv) >= 3
  /\ ~Closed

(***************************************************************************)
(* C11: a resolved line without a security option has the first compiled   *)
(* candidate of the build as its security model, the candidates taken in   *)
(* the order of the option table (munge, lmon, keyfile, none); a line with *)
(* one security option has the model of that option; and the security      *)
(* field of the resolved bits encodes exactly that model.                  *)
(***************************************************************************)
\* the models of the security options compiled into build b; the option
\* table lists them in ascending order of the model
CompiledModels(b) == {t.key - 256 : t \in SecTokens(b)}
FirstCandidate(b) ==
  CHOOSE m \in CompiledModels(b) : \A n \in CompiledModels(b) : m <= n
SecBits == {"OPT_SEC_BIT0", "OPT_SEC_BIT1"}

C11_SecurityModel ==
  Resolved =>
    /\ SecSelections = {} => sec_model = FirstCandidate(build)
    /\ Cardinality(SecModelsSelected) = 1 => sec_model \in SecModelsSelected
    /\ opts \cap SecBits = SecField(sec_model)

(***************************************************************************)
(* C13: scanning a yes/no option before the command with the value yes or  *)
(* y adds the option's feature bit to the enabled set, with no or n to the *)
(* disabled set, and with any other value exits with the yes/no error; in  *)
(* each case the resolved bits are as they were before.                    *)
(***************************************************************************)
FeatureBit ==
  [k \in YesNoKeys |->
     CASE k = RELOCAOUT -> "OPT_RELOCAOUT"
       [] k = RELOCSO -> "OPT_RELOCSO"
       [] k = RELOCPY -> "OPT_RELOCPY"
       [] k = RELOCEXEC -> "OPT_RELOCEXEC"
       [] k = FOLLOWFORK -> "OPT_FOLLOWFORK"
       [] k = DEBUG -> "OPT_DEBUG"
       [] k = STRIP -> "OPT_STRIP"
       [] k = NOCLEAN -> "OPT_NOCLEAN"]

C13_YesNoLiterals ==
  [][pc = "scan" /\ Len(argv') = Len(argv) + 1
       /\ argv'[Len(argv')].key \in YesNoKeys =>
     LET t == argv'[Len(argv')]
         bit == FeatureBit[t.key]
     IN  /\ opts' = opts
         /\ t.arg \in {LitYes, LitY} =>
              /\ pc' = "scan"
              /\ enabled_opts' = enabled_opts \cup {bit}
              /\ disabled_opts' = disabled_opts
         /\ t.arg \in {LitNo, LitN} =>
              /\ pc' = "scan"
              /\ disabled_opts' = disabled_opts \cup {bit}
              /\ enabled_opts' = enabled_opts
         /\ t.arg \notin {LitYes, LitY, LitNo, LitN} =>
              pc' = "exit" /\ error' = ErrYesNo]_vars

C13_Witness ==
  /\ pc = "exit"
  /\ error = ErrYesNo
  /\ Len(argv) = 3
  /\ argv[2] = Tok(FOLLOWFORK, LitY)
  /\ argv[3] = Tok(FOLLOWFORK, <<"N", "O">>)
  /\ enabled_opts = {"OPT_FOLLOWFORK"}
  /\ disabled_opts = {}

(***************************************************************************)
(* C15: every resolved line has exactly one of OPT_PUSH and OPT_PULL and,  *)
(* of the network bits, exactly OPT_COBO.                                  *)
(***************************************************************************)
C15_OneModelOneNetwork ==
  Resolved =>
    /\ Cardinality(opts \cap {"OPT_PUSH", "OPT_PULL"}) = 1
    /\ opts \cap all_network_opts = {"OPT_COBO"}

C15_Witness ==
  /\ pc = "returned"
  /\ Given(PULL)
  /\ Given(COBO)
  /\ opts \cap {"OPT_PUSH", "OPT_PULL", "OPT_COBO"} = {"OPT_PULL", "OPT_COBO"}

(***************************************************************************)
(* C18: in a returned configuration OPT_PRELOAD is set exactly when the    *)
(* line has a preload option before the command, which is exactly when     *)
(* getPreloadFile() is not null; its value is then the path of the last    *)
(* preload option.                                                         *)
(***************************************************************************)
\* the place of the last option of key k before the command
LastOf(k) ==
  CHOOSE i \in OptIdx :
    argv[i].key = k /\ \A j \in OptIdx : argv[j].key = k => j <= i

C18_PreloadBit ==
  pc = "returned" =>
    /\ ("OPT_PRELOAD" \in opts) = Given(PRELOAD)
    /\ (getPreloadFile # NULL) = Given(PRELOAD)
    /\ Given(PRELOAD) => getPreloadFile = argv[LastOf(PRELOAD)].arg

C18_Witness ==
  /\ pc = "returned"
  /\ OptionSeq = <<Tok(PRELOAD, Str1("f")), Tok(PRELOAD, Str1("g"))>>
  /\ "OPT_PRELOAD" \in opts
  /\ getPreloadFile = Str1("g")

(***************************************************************************)
(* C19: in a returned configuration isMPIJob() is false exactly when       *)
(* OPT_NOMPI is set and hideFDs() is false exactly when OPT_NOHIDE is set; *)
(* each bit is set when its option is scanned, so the bits are those of    *)
(* the options delivered so far, and the finalize step and the debug       *)
(* override leave both as they were.                                       *)
(***************************************************************************)
MpiHideBits == {"OPT_NOMPI", "OPT_NOHIDE"}

C19_MpiHideBits ==
  /\ [](pc = "returned" =>
          /\ (isMPIJob = FALSE) = ("OPT_NOMPI" \in opts)
          /\ (hideFDs = FALSE) = ("OPT_NOHIDE" \in opts))
  /\ [](/\ ("OPT_NOMPI" \in opts) = Given(NOMPI)
        /\ ("OPT_NOHIDE" \in opts) = Given(HIDE_KEY))
  /\ [][(pc = "end" \/ pc = "parsed") =>
          opts' \cap MpiHideBits = opts \cap MpiHideBits]_vars

C19_Witness ==
  /\ pc = "returned"
  /\ Given(NOMPI)
  /\ ~Given(HIDE_KEY)
  /\ ~isMPIJob
  /\ hideFDs
  /\ opts \cap MpiHideBits = {"OPT_NOMPI"}

(***************************************************************************)
(* The python prefix lists as the user wrote them                          *)
(***************************************************************************)
\* the non-empty segments of the ':'-separated list s
Segments(s) ==
  {SubSeq(s, p[1], p[2]) :
     p \in {q \in (1..Len(s)) \X (1..Len(s)) :
              /\ q[1] <= q[2]
              /\ \A k \in q[1]..q[2] : s[k] # ":"
              /\ q[1] = 1 \/ s[q[1] - 1] = ":"
              /\ q[2] = Len(s) \/ s[q[2] + 1] = ":"}}
\* the places where a segment of r starts, and the segment that starts at i
Starts(r) == {i \in 1..Len(r) : r[i] # ":" /\ (i = 1 \/ r[i - 1] = ":")}
SegmentFrom(r, i) ==
  SubSeq(r, i, CHOOSE j \in i..Len(r) :
                 /\ \A k \in i..j : r[k] # ":"
                 /\ j = Len(r) \/ r[j + 1] = ":")
\* r is the members of U joined with ':' in ascending order: no member
\* missing or twice, no empty segment, no ':' at either end
JoinedAscending(r, U) ==
  /\ Segments(r) = U
  /\ r # << >> => r[1] # ":" /\ r[Len(r)] # ":"
  /\ \A i \in 1..(Len(r) - 1) : ~(r[i] = ":" /\ r[i + 1] = ":")
  /\ \A i, j \in Starts(r) : i < j => StrLess(SegmentFrom(r, i), SegmentFrom(r, j))
\* the user list in effect: the value of the last python-prefix option
UserList ==
  IF Given(PYTHONPREFIX) THEN argv[LastOf(PYTHONPREFIX)].arg ELSE << >>
\* the union the two lists stand for
PrefixUnion == Segments(default_python_prefixes) \cup Segments(UserList)

(***************************************************************************)
(* C12: a call of getPythonPrefixes returns, and what it returns is the    *)
(* non-empty segments of the default list and of the user list, each once, *)
(* joined with ':' in ascending order with no empty segment and no ':' at  *)
(* either end; so lists with the same segments in another order give the   *)
(* same result.                                                            *)
(***************************************************************************)
C12_PythonPrefixes ==
  /\ pc # "crash"
  /\ getPythonPrefixes # NULL => JoinedAscending(getPythonPrefixes, PrefixUnion)

(***************************************************************************)
(* C14: a call of parseArgs starts with an empty enabled set, an empty     *)
(* disabled set and no resolved bits, so what it returns and whether it    *)
(* exits depends on its own line only: a line without pull does not        *)
(* resolve to pull, and the push/pull error needs both on the one line.    *)
(***************************************************************************)
C14_FreshAccumulators ==
  /\ pc = "entry" => enabled_opts = {} /\ disabled_opts = {} /\ opts = {}
  /\ pc = "returned" /\ ~Given(PULL) =>
       opts \cap {"OPT_PUSH", "OPT_PULL"} = {"OPT_PUSH"}
  /\ error = ErrMultiPushPull => Given(PUSH) /\ Given(PULL)

(***************************************************************************)
(* C16: in a returned configuration each of getPort(), getLocation(n),     *)
(* getPreloadFile() and getPythonPrefixes() has the value that the last    *)
(* option of its kind before the command gives, whatever the options of    *)
(* that kind before it were.                                               *)
(***************************************************************************)
C16_LastOccurrenceWins ==
  pc = "returned" =>
    /\ Given(PORT) => getPort = atoi(argv[LastOf(PORT)].arg)
    /\ Given(LOCATION) =>
         \A n \in {0, 42} :
           getLocation(n) =
             argv[LastOf(LOCATION)].arg
               \o <<"/", "s", "p", "i", "n", "d", "l", "e", ".">> \o FormatInt(n)
    /\ Given(PRELOAD) => getPreloadFile = argv[LastOf(PRELOAD)].arg
    /\ Given(PYTHONPREFIX) /\ getPythonPrefixes # NULL =>
         JoinedAscending(getPythonPrefixes, PrefixUnion)

C16_Witness ==
  /\ pc = "returned"
  /\ OptionSeq = <<Tok(PYTHONPREFIX, Str1("p")), Tok(LOCATION, Str1("l")),
                   Tok(PYTHONPREFIX, Str1("q"))>>
  /\ getPythonPrefixes = <<"/", "a", ":", "/", "b", ":", "q">>
  /\ getLocation(0) = <<"l", "/", "s", "p", "i", "n", "d", "l", "e", ".", "0">>

(***************************************************************************)
(* C17: when neither the default list nor the user list has a non-empty    *)
(* segment, a call of getPythonPrefixes returns, and returns the empty     *)
(* string.                                                                 *)
(***************************************************************************)
C17_EmptyPrefixes ==
  PrefixUnion = {} =>
    /\ pc # "crash"
    /\ getPythonPrefixes # NULL => getPythonPrefixes = << >>

====
